---- MODULE Spec2Model ----
(***************************************************************************)
(* Model of actions.py of the helpdesk assistant: the session-start        *)
(* handler, the incident-intake form (validate_email, validate_priority,   *)
(* submit) with the two ServiceNow clients, and the confidence-report      *)
(* action with get_last_event_for.                                         *)
(*                                                                         *)
(* Every handler is one action.  An action records what the handler was    *)
(* given (tracker, domain, in_value, snap), what it returned (ret,         *)
(* validated, raised), the chat messages it dispatched (msgs) and the      *)
(* HTTP requests it issued (net).                                          *)
(***************************************************************************)
EXTENDS Integers, Sequences, FiniteSets, TLC

VARIABLES
    localmode,          \* snow_config "localmode"
    use_profile_email,  \* snow_config "use_profile_email"
    tracker,            \* event list of the tracker handed to the handler
    domain,             \* domain dict handed to the handler
    slots,              \* the four form slots of the conversation
    active,             \* the form is the active form
    requested_slot,     \* slot the form asked for
    snap,               \* slots as the running handler read them
    op,                 \* handler that ran last
    in_value,           \* value handed to a validate_* handler
    outcome,            \* what the ticketing system answered in this handler
    ret,                \* list of events the handler returned
    validated,          \* dict a validate_* handler returned, as <<key, value>> pairs
    raised,             \* exception that left the handler, "none" if it returned
    msgs,               \* messages the handler dispatched
    net,                \* HTTP requests the handler issued
    snow_priority,      \* local snow_priority of submit
    skip                \* skip handed to get_last_event_for

vars == <<localmode, use_profile_email, tracker, domain, slots, active,
          requested_slot, snap, op, in_value, outcome, ret, validated,
          raised, msgs, net, snow_priority, skip>>

NULL == "None"

\* ---------------------------------------------------------------- bounds
MaxHist == 3        \* longest tracker history handed to a handler
MaxRecords == 2     \* most records a lookup answer carries
MaxSkip == 2        \* largest skip handed to get_last_event_for

\* ------------------------------------------------------- generic helpers
SeqsUpTo(S, n) == UNION {[1..k -> S] : k \in 0..n}

DictGet(d, k, default) == IF k \in DOMAIN d THEN d[k] ELSE default

\* ------------------------------------------------------------- events
SessionStarted == [event |-> "session_started"]
ActionExecuted(name) == [event |-> "action", name |-> name]
SlotSet(key, value, metadata) ==
    [event |-> "slot", key |-> key, value |-> value, metadata |-> metadata]
AllSlotsReset == [event |-> "reset_slots"]
UserUttered(text) == [event |-> "user", text |-> text]

IsSlotSet(e) == e.event = "slot"

\* -------------------------------------------------- generate_mock_profile
user == <<[name |-> "Abel",    email |-> "abel.tuter@example.com"],
          [name |-> "Abraham", email |-> "abraham.lincoln@example.com"],
          [name |-> "Adela",   email |-> "adela.cervantsz@example.com"],
          [name |-> "Aileen",  email |-> "aileen.mottern@example.com"],
          [name |-> "Allyson", email |-> "allyson.gillispie@example.com"],
          [name |-> "Alva",    email |-> "alva.pennigton@example.com"],
          [name |-> "Amos",    email |-> "amos.linnan@example.com"]>>

sites == <<"Berlin", "San Francisco", "Seattle", "London", "Austin",
           "Dallas", "New York", "Zurich">>

\* the profile as the ordered (key, value) items of the dict; n and s are
\* the two random.randint draws
generate_mock_profile(n, s) ==
    << <<"profile_name", user[n + 1].name>>,
       <<"email", IF use_profile_email THEN user[n + 1].email ELSE NULL>>,
       <<"profile_site", sites[s + 1]>> >>

\* ---------------------------------------------------- ActionSessionStart
RECURSIVE _slot_set_events_from_tracker(_)
_slot_set_events_from_tracker(applied) ==
    IF applied = <<>> THEN <<>>
    ELSE LET event == Head(applied)
         IN  (IF IsSlotSet(event)
              THEN <<SlotSet(event.key, event.value, event.metadata)>>
              ELSE <<>>) \o _slot_set_events_from_tracker(Tail(applied))

CarryOverConfigured(dom) ==
    "carry_over_slots" \in DOMAIN DictGet(dom, "session_config", <<>>)

RECURSIVE ProfileEvents(_)
ProfileEvents(items) ==
    IF items = <<>> THEN <<>>
    ELSE (IF Head(items)[2] # NULL
          THEN <<SlotSet(Head(items)[1], Head(items)[2], NULL)>>
          ELSE <<>>) \o ProfileEvents(Tail(items))

\* action_listen is appended before the profile is
SessionStartEvents_listen_early(applied, dom, n, s) ==
    <<SessionStarted>>
    \o (IF CarryOverConfigured(dom)
        THEN _slot_set_events_from_tracker(applied) ELSE <<>>)
    \o <<ActionExecuted("action_listen")>>
    \o ProfileEvents(generate_mock_profile(n, s))

SessionStartEvents(applied, dom, n, s) ==
    <<SessionStarted>>
    \o (IF CarryOverConfigured(dom)
        THEN _slot_set_events_from_tracker(applied) ELSE <<>>)
    \o ProfileEvents(generate_mock_profile(n, s))
    \o <<ActionExecuted("action_listen")>>

\* events a prior tracker can hold
PriorEvents ==
    { SlotSet("email", "abel.tuter@example.com", "m1"),
      SlotSet("priority", "low", "m2"),
      SessionStarted,
      ActionExecuted("action_listen"),
      UserUttered("hi") }

Domains ==
    { [intents |-> "any"],
      [session_config |-> [session_expiration_time |-> 60]],
      [session_config |-> [session_expiration_time |-> 60,
                           carry_over_slots |-> TRUE]],
      [session_config |-> [session_expiration_time |-> 60,
                           carry_over_slots |-> FALSE]],
      [session_config |-> [session_expiration_time |-> 60,
                           carry_over_slots_to_new_session |-> TRUE]] }

NoSlots == [email |-> NULL, priority |-> NULL,
            problem_description |-> NULL, incident_title |-> NULL]

\* nothing has run yet
Fresh ==
    /\ slots = NoSlots
    /\ active = FALSE
    /\ requested_slot = NULL
    /\ snap = NoSlots
    /\ op = "none"
    /\ in_value = NULL
    /\ outcome = [kind |-> "none"]
    /\ ret = <<>>
    /\ validated = {}
    /\ raised = "none"
    /\ msgs = <<>>
    /\ net = <<>>
    /\ snow_priority = NULL
    /\ skip = 0

\* the host hands the handler a prior tracker and a domain
InitSession ==
    /\ localmode \in BOOLEAN
    /\ use_profile_email \in BOOLEAN
    /\ tracker \in SeqsUpTo(PriorEvents, MaxHist)
    /\ domain \in Domains
    /\ Fresh

ActionSessionStart_run ==
    \E n \in 0..(Len(user) - 1), s \in 0..(Len(sites) - 1) :
        /\ op = "none"
        /\ op' = "action_session_start"
        /\ ret' = SessionStartEvents(tracker, domain, n, s)
        /\ UNCHANGED <<localmode, use_profile_email, tracker, domain, slots,
                       active, requested_slot, snap, in_value, outcome,
                       validated, raised, msgs, net, snow_priority, skip>>

NextSession == ActionSessionStart_run

SpecSession == InitSession /\ [][NextSession]_vars

\* ------------------------------------------------------ ticketing clients
Message(template, text) == [template |-> template, text |-> text]

Accounts == {[sys_id |-> "u1"], [sys_id |-> "u2"]}

\* what the ticketing system can answer to the lookup GET
LookupOutcomes ==
    {[kind |-> "ok", records |-> r] : r \in SeqsUpTo(Accounts, MaxRecords)}
    \cup {[kind |-> "http", code |-> c, message |-> "User Not Authenticated"] :
            c \in {401, 500}}
    \cup {[kind |-> "timeout"], [kind |-> "connerr"]}

\* what the ticketing system can answer to the create POST
CreateOutcomes ==
    {[kind |-> "created", number |-> "INC0001234"],
     [kind |-> "error"], [kind |-> "connerr"]}

NoOutcome == [kind |-> "none"]

LookupRequest(email) ==
    [method |-> "GET", table |-> "sys_user", email |-> email]

\* results dict of email_to_sysid; raised is the exception requests.get
\* lets through (only Timeout is caught)
email_to_sysid(email, out) ==
    [net |-> <<LookupRequest(email)>>,
     raised |-> IF out.kind = "connerr" THEN "ConnectionError" ELSE "none",
     results |->
        CASE out.kind = "ok" ->
                [status |-> 200, value |-> out.records]
          [] out.kind = "http" ->
                [status |-> out.code,
                 msg |-> <<"ServiceNow error: ", out.message>>]
          [] OTHER ->
                [status |-> 200,
                 msg |-> <<"Could not connect to ServiceNow (Timeout)">>]]

\* the title is sent as the comment
create_incident_title_comment(description, short_description, priority, caller) ==
    [method |-> "POST", table |-> "incident",
     data |-> [opened_by |-> caller,
               short_description |-> short_description,
               description |-> description,
               urgency |-> priority,
               caller_id |-> caller,
               comments |-> short_description]]

create_incident(description, short_description, priority, caller) ==
    [method |-> "POST", table |-> "incident",
     data |-> [opened_by |-> caller,
               short_description |-> short_description,
               description |-> description,
               urgency |-> priority,
               caller_id |-> caller,
               comments |-> description]]

\* ------------------------------------------------------ OpenIncidentForm
\* priority is asked before email
required_slots_priority_first ==
    <<"priority", "email", "problem_description", "incident_title">>

required_slots ==
    <<"email", "priority", "problem_description", "incident_title">>

TextIntents == {"password_reset", "problem_email", "inform"}

slot_mappings ==
    [email |-> <<[type |-> "from_entity", entity |-> "email"]>>,
     priority |-> <<[type |-> "from_entity", entity |-> "priority"]>>,
     problem_description |->
        <<[type |-> "from_text", intent |-> TextIntents]>>,
     incident_title |->
        <<[type |-> "from_trigger_intent", intent |-> {"password_reset"},
           value |-> "Problem resetting password"],
          [type |-> "from_trigger_intent", intent |-> {"problem_email"},
           value |-> "Problem with email"],
          [type |-> "from_text", intent |-> TextIntents]>>]

priority_db == <<"low", "medium", "high">>

\* str.lower on the priority values the user can type
Lower(value) ==
    CASE value \in {"low", "Low", "LOW"} -> "low"
      [] value \in {"medium", "Medium"} -> "medium"
      [] value \in {"high", "HIGH"} -> "high"
      [] OTHER -> value

Handled(validatedDict, messages, requests, exc) ==
    [validated |-> validatedDict, msgs |-> messages, net |-> requests,
     raised |-> exc]

\* an account matches whenever the answer has a record at all
validate_email_live_any(value, out) ==
    LET call == email_to_sysid(value, out)
        results == call.results
    IN  IF call.raised # "none"
        THEN Handled({}, <<>>, call.net, call.raised)
        ELSE IF results.status = 200
        THEN IF "value" \notin DOMAIN results
             THEN Handled({}, <<>>, call.net, "KeyError")
             ELSE IF Len(results.value) >= 1
             THEN Handled({<<"email", value>>}, <<>>, call.net, "none")
             ELSE Handled({<<"email", NULL>>},
                          <<Message("utter_no_email", <<>>)>>,
                          call.net, "none")
        ELSE Handled({<<"email", NULL>>},
                     <<Message(NULL, results.msg)>>, call.net, "none")

\* validate_email past the localmode test
validate_email_live(value, out) ==
    LET call == email_to_sysid(value, out)
        results == call.results
    IN  IF call.raised # "none"
        THEN Handled({}, <<>>, call.net, call.raised)
        ELSE IF results.status = 200
        THEN IF "value" \notin DOMAIN results
             THEN Handled({}, <<>>, call.net, "KeyError")
             ELSE IF Len(results.value) = 1
             THEN Handled({<<"email", value>>}, <<>>, call.net, "none")
             ELSE Handled({<<"email", NULL>>},
                          <<Message("utter_no_email", <<>>)>>,
                          call.net, "none")
        ELSE Handled({<<"email", NULL>>},
                     <<Message(NULL, results.msg)>>, call.net, "none")

\* the lookup is made in local mode too
validate_email_no_localmode(value, out) == validate_email_live(value, out)

validate_email(value, out) ==
    IF localmode THEN Handled({<<"email", value>>}, <<>>, <<>>, "none")
    ELSE validate_email_live(value, out)

validate_priority(value) ==
    IF \E i \in 1..Len(priority_db) : priority_db[i] = Lower(value)
    THEN Handled({<<"priority", value>>}, <<>>, <<>>, "none")
    ELSE Handled({<<"priority", NULL>>},
                 <<Message("utter_no_priority", <<>>)>>, <<>>, "none")

SnowPriority(priority) ==
    IF priority = "low" THEN "3"
    ELSE IF priority = "medium" THEN "2"
    ELSE "1"

Submitted(events, messages, requests, exc) ==
    [ret |-> events, msgs |-> messages, net |-> requests, raised |-> exc]

PreviewHead ==
    "An incident with the following details would be opened if ServiceNow was connected:"

\* the reset is returned from a finally clause, whatever was raised
submit_live_finally(sl, outL, outC) ==
    LET call == email_to_sysid(sl.email, outL)
        results == call.results
    IN  IF call.raised # "none"
        THEN Submitted(<<AllSlotsReset>>, <<>>, call.net, call.raised)
        ELSE IF "value" \notin DOMAIN results
        THEN Submitted(<<AllSlotsReset>>, <<>>, call.net, "KeyError")
        ELSE IF Len(results.value) = 0
        THEN Submitted(<<AllSlotsReset>>, <<>>, call.net, "IndexError")
        ELSE LET sysid == results.value[1].sys_id
                 post == create_incident(sl.problem_description,
                             sl.incident_title,
                             SnowPriority(sl.priority), sysid)
                 sent == call.net \o <<post>>
             IN  IF outC.kind = "connerr"
                 THEN Submitted(<<AllSlotsReset>>, <<>>, sent, "ConnectionError")
                 ELSE IF outC.kind = "error"
                 THEN Submitted(<<AllSlotsReset>>, <<>>, sent, "KeyError")
                 ELSE Submitted(<<AllSlotsReset>>,
                         <<Message(NULL,
                             <<"Successfully opened up incident ",
                               outC.number,
                               " for you.  Someone will reach out soon.">>)>>,
                         sent, "none")

\* submit past the localmode test
submit_live(sl, outL, outC) ==
    LET call == email_to_sysid(sl.email, outL)
        results == call.results
    IN  IF call.raised # "none"
        THEN Submitted(<<>>, <<>>, call.net, call.raised)
        ELSE IF "value" \notin DOMAIN results
        THEN Submitted(<<>>, <<>>, call.net, "KeyError")
        ELSE IF Len(results.value) = 0
        THEN Submitted(<<>>, <<>>, call.net, "IndexError")
        ELSE LET sysid == results.value[1].sys_id
                 post == create_incident(sl.problem_description,
                             sl.incident_title,
                             SnowPriority(sl.priority), sysid)
                 sent == call.net \o <<post>>
             IN  IF outC.kind = "connerr"
                 THEN Submitted(<<>>, <<>>, sent, "ConnectionError")
                 ELSE IF outC.kind = "error"
                 THEN Submitted(<<>>, <<>>, sent, "KeyError")
                 ELSE Submitted(<<AllSlotsReset>>,
                         <<Message(NULL,
                             <<"Successfully opened up incident ",
                               outC.number,
                               " for you.  Someone will reach out soon.">>)>>,
                         sent, "none")

submit(sl, outL, outC) ==
    IF localmode
    THEN Submitted(<<AllSlotsReset>>,
            <<Message(NULL, <<PreviewHead, sl.email, sl.problem_description,
                              sl.incident_title, sl.priority>>)>>,
            <<>>, "none")
    ELSE submit_live(sl, outL, outC)

\* ------------------------------------------------- the form in the host
\* first required slot that is not filled, NULL when all are
request_next_slot(sl) ==
    LET open == {i \in 1..Len(required_slots) : sl[required_slots[i]] = NULL}
    IN  IF open = {} THEN NULL
        ELSE required_slots[CHOOSE i \in open : \A j \in open : i <= j]

ApplyValidated(sl, dict) ==
    [k \in DOMAIN sl |->
        IF \E kv \in dict : kv[1] = k
        THEN (CHOOSE kv \in dict : kv[1] = k)[2] ELSE sl[k]]

\* value the mappings of slot give for a user message, NULL when none
\* applies; trigger mappings apply only to the message that activates the form
RECURSIVE FirstMapping(_, _, _)
FirstMapping(mappings, message, activating) ==
    IF mappings = <<>> THEN NULL
    ELSE LET m == Head(mappings)
         IN  IF m.type = "from_trigger_intent" /\ activating
                /\ message.intent \in m.intent
             THEN m.value
             ELSE IF m.type = "from_text" /\ ~activating
                     /\ message.intent \in m.intent
             THEN message.text
             ELSE FirstMapping(Tail(mappings), message, activating)

Emails == {"abel.tuter@example.com", "nobody@example.com"}
Priorities == {"low", "Low", "LOW", "medium", "high", "urgent", ""}
Texts == {"cannot log in"}
Intents == {"password_reset", "problem_email", "inform", "open_incident",
            "chitchat"}

Cleared ==
    /\ in_value' = NULL
    /\ outcome' = NoOutcome
    /\ ret' = <<>>
    /\ validated' = {}
    /\ raised' = "none"
    /\ msgs' = <<>>
    /\ net' = <<>>
    /\ snow_priority' = NULL

\* the form becomes the active form on a user message
Activate ==
    \E intent \in Intents :
        LET message == [intent |-> intent, text |-> "help"]
            title == FirstMapping(slot_mappings.incident_title, message, TRUE)
            filled == [NoSlots EXCEPT !.incident_title = title]
        IN  /\ ~active
            /\ active' = TRUE
            /\ snap' = slots
            /\ slots' = filled
            /\ requested_slot' = request_next_slot(filled)
            /\ op' = "activate"
            /\ Cleared
            /\ UNCHANGED <<localmode, use_profile_email, tracker, domain, skip>>

ValidateEmail ==
    \E value \in Emails, out \in LookupOutcomes :
        LET r == validate_email(value, out)
            filled == IF r.raised = "none"
                      THEN ApplyValidated(slots, r.validated) ELSE slots
        IN  /\ active
            /\ requested_slot = "email"
            /\ op' = "validate_email"
            /\ in_value' = value
            /\ snap' = slots
            /\ outcome' = IF r.net = <<>> THEN NoOutcome ELSE out
            /\ validated' = r.validated
            /\ msgs' = r.msgs
            /\ net' = r.net
            /\ raised' = r.raised
            /\ ret' = <<>>
            /\ snow_priority' = NULL
            /\ slots' = filled
            /\ requested_slot' = request_next_slot(filled)
            /\ UNCHANGED <<localmode, use_profile_email, tracker, domain,
                           active, skip>>

ValidatePriority ==
    \E value \in Priorities :
        LET r == validate_priority(value)
            filled == ApplyValidated(slots, r.validated)
        IN  /\ active
            /\ requested_slot = "priority"
            /\ op' = "validate_priority"
            /\ in_value' = value
            /\ snap' = slots
            /\ outcome' = NoOutcome
            /\ validated' = r.validated
            /\ msgs' = r.msgs
            /\ net' = r.net
            /\ raised' = r.raised
            /\ ret' = <<>>
            /\ snow_priority' = NULL
            /\ slots' = filled
            /\ requested_slot' = request_next_slot(filled)
            /\ UNCHANGED <<localmode, use_profile_email, tracker, domain,
                           active, skip>>

\* the two slots without a validate_ method take what their mappings extract
ExtractText ==
    \E intent \in Intents, text \in Texts :
        LET message == [intent |-> intent, text |-> text]
            value == FirstMapping(slot_mappings[requested_slot], message, FALSE)
            filled == [slots EXCEPT ![requested_slot] = value]
        IN  /\ active
            /\ requested_slot \in {"problem_description", "incident_title"}
            /\ op' = "extract"
            /\ in_value' = value
            /\ snap' = slots
            /\ slots' = filled
            /\ requested_slot' = request_next_slot(filled)
            /\ outcome' = NoOutcome
            /\ validated' = {}
            /\ msgs' = <<>>
            /\ net' = <<>>
            /\ raised' = "none"
            /\ ret' = <<>>
            /\ snow_priority' = NULL
            /\ UNCHANGED <<localmode, use_profile_email, tracker, domain,
                           active, skip>>

\* submit, then the host applies the returned events and deactivates the form
Submit ==
    \E outL \in LookupOutcomes, outC \in CreateOutcomes :
        LET r == submit(slots, outL, outC)
            done == r.raised = "none"
        IN  /\ active
            /\ request_next_slot(slots) = NULL
            /\ op' = "submit"
            /\ in_value' = NULL
            /\ snap' = slots
            /\ snow_priority' = SnowPriority(slots.priority)
            /\ outcome' = IF Len(r.net) = 0 THEN NoOutcome
                          ELSE IF Len(r.net) = 1
                          THEN [kind |-> "submit", lookup |-> outL]
                          ELSE [kind |-> "submit", lookup |-> outL,
                                create |-> outC]
            /\ ret' = r.ret
            /\ msgs' = r.msgs
            /\ net' = r.net
            /\ raised' = r.raised
            /\ validated' = {}
            /\ slots' = IF \E i \in 1..Len(r.ret) : r.ret[i] = AllSlotsReset
                        THEN NoSlots ELSE slots
            /\ active' = ~done
            /\ requested_slot' = IF done THEN NULL ELSE requested_slot
            /\ UNCHANGED <<localmode, use_profile_email, tracker, domain, skip>>

InitForm ==
    /\ localmode \in BOOLEAN
    /\ use_profile_email \in BOOLEAN
    /\ tracker = <<>>
    /\ domain = [intents |-> "any"]
    /\ Fresh

NextForm ==
    \/ Activate
    \/ ValidateEmail
    \/ ValidatePriority
    \/ ExtractText
    \/ Submit

SpecForm == InitForm /\ [][NextForm]_vars

\* ------------------------------------------------- get_last_event_for
NoneEvent == [event |-> "None"]

ExcludedIntents == {"domicile", "customertype"}

\* the two administrative intents are not excluded
filter_function_any_intent(e, event_type) == e.event = event_type

filter_function(e, event_type) ==
    LET has_instance == TRUE    \* e itself, a non-empty dict
        excluded == \/ e.event # event_type
                    \/ /\ e.event = event_type
                       /\ \/ e.parse_data.intent.name = "domicile"
                          \/ e.parse_data.intent.name = "customertype"
    IN  has_instance /\ ~excluded

RECURSIVE Reversed(_)
Reversed(s) == IF s = <<>> THEN <<>> ELSE Reversed(Tail(s)) \o <<Head(s)>>

RECURSIVE Filter(_, _)
Filter(s, event_type) ==
    IF s = <<>> THEN <<>>
    ELSE (IF filter_function(Head(s), event_type) THEN <<Head(s)>> ELSE <<>>)
         \o Filter(Tail(s), event_type)

\* next(it, None) taken times times: the iterator that is left
RECURSIVE Advance(_, _)
Advance(it, times) ==
    IF times = 0 \/ it = <<>> THEN it ELSE Advance(Tail(it), times - 1)

get_last_event_for(events, event_type, skipped) ==
    LET filtered == Advance(Filter(Reversed(events), event_type), skipped)
    IN  IF filtered = <<>> THEN NoneEvent ELSE Head(filtered)

\* the message lines, or the exception the subscripts raise
intentHistoryStr(events, skipped, past) ==
    LET prev_user_event == get_last_event_for(events, "user", skipped)
    IN  IF prev_user_event = NoneEvent
        THEN [raised |-> "TypeError", msg |-> <<>>]
        ELSE LET intent == prev_user_event.parse_data.intent
                 ranking == prev_user_event.parse_data.intent_ranking
             IN  IF \E i \in 0..(past - 2) : i + 2 > Len(ranking)
                 THEN [raised |-> "IndexError", msg |-> <<>>]
                 ELSE [raised |-> "none",
                       msg |-> <<"Ranked F1 scores:",
                                 <<intent.name, intent.confidence>>>>
                               \o [i \in 1..(past - 1) |->
                                     <<ranking[i + 1].name,
                                       ranking[i + 1].confidence>>]]

\* ---------------------------------------------------- tracker histories
Ranking(name) ==
    <<[name |-> name, confidence |-> 9000],
      [name |-> "inform", confidence |-> 500],
      [name |-> "goodbye", confidence |-> 300],
      [name |-> "thank", confidence |-> 200]>>

RankLens == {3, 4}

EventKinds ==
    {[event |-> "action"]}
    \cup {[event |-> "user", intent |-> i, rank |-> r] :
            i \in {"greet"} \cup ExcludedIntents, r \in RankLens}

\* the event of a kind at position ts of the history
EventAt(kind, ts) ==
    IF kind.event = "user"
    THEN [event |-> "user", timestamp |-> ts, text |-> "hello",
          parse_data |->
             [intent |-> [name |-> kind.intent, confidence |-> 9000],
              intent_ranking |-> SubSeq(Ranking(kind.intent), 1, kind.rank)]]
    ELSE [event |-> "action", timestamp |-> ts, name |-> "action_listen"]

Histories ==
    {[i \in DOMAIN kinds |-> EventAt(kinds[i], i)] :
        kinds \in SeqsUpTo(EventKinds, MaxHist)}

InitIntent ==
    /\ localmode \in BOOLEAN
    /\ use_profile_email \in BOOLEAN
    /\ tracker \in Histories
    /\ domain = [intents |-> "any"]
    /\ Fresh

GetLastEventFor ==
    \E k \in 0..MaxSkip :
        /\ op = "none"
        /\ op' = "get_last_event_for"
        /\ skip' = k
        /\ ret' = <<get_last_event_for(tracker, "user", k)>>
        /\ UNCHANGED <<localmode, use_profile_email, tracker, domain, slots,
                       active, requested_slot, snap, in_value, outcome,
                       validated, raised, msgs, net, snow_priority>>

ActionLastIntent_run ==
    LET r == intentHistoryStr(tracker, 1, 4)
    IN  /\ op = "none"
        /\ op' = "action_f1_score"
        /\ skip' = 1
        /\ raised' = r.raised
        /\ msgs' = IF r.raised = "none" THEN <<Message(NULL, r.msg)>> ELSE <<>>
        /\ ret' = <<>>
        /\ UNCHANGED <<localmode, use_profile_email, tracker, domain, slots,
                       active, requested_slot, snap, in_value, outcome,
                       validated, net, snow_priority>>

NextIntent ==
    \/ GetLastEventFor
    \/ ActionLastIntent_run

SpecIntent == InitIntent /\ [][NextIntent]_vars

\* =================================================================
\* Properties
\* =================================================================

\* C1: in local mode no handler of the form issues an HTTP request;
\* validate_email returns the value it was given unchanged, and submit sends
\* the preview message and returns the bulk reset.
C1_LocalModeNoOutboundCall ==
    localmode =>
        /\ net = <<>>
        /\ op = "validate_email" =>
              /\ raised = "none"
              /\ validated = {<<"email", in_value>>}
              /\ slots.email = in_value
        /\ op = "submit" =>
              /\ raised = "none"
              /\ Len(msgs) = 1
              /\ msgs[1].text[1] = PreviewHead
              /\ ret = <<AllSlotsReset>>

C1_Witness ==
    /\ localmode
    /\ op = "submit"
    /\ snap.email \in Emails
    /\ net = <<>>

\* C2: the list returned by the session-start handler starts with the one
\* session-started event and ends with the one action_listen event; between
\* them come the carried-over slot events and then the profile slot events.
IsCarried(e) == e.event = "slot" /\ e.metadata # NULL
IsProfile(e) ==
    /\ e.event = "slot"
    /\ e.metadata = NULL
    /\ e.key \in {"profile_name", "email", "profile_site"}

C2_SessionStartOrder ==
    op = "action_session_start" =>
        /\ Len(ret) >= 2
        /\ ret[1] = SessionStarted
        /\ ret[Len(ret)] = ActionExecuted("action_listen")
        /\ Cardinality({i \in 1..Len(ret) : ret[i] = SessionStarted}) = 1
        /\ Cardinality({i \in 1..Len(ret) :
                            ret[i] = ActionExecuted("action_listen")}) = 1
        /\ \A i \in 2..(Len(ret) - 1) : IsCarried(ret[i]) \/ IsProfile(ret[i])
        /\ \A i, j \in 2..(Len(ret) - 1) :
              IsCarried(ret[i]) /\ IsProfile(ret[j]) => i < j

C2_Witness ==
    /\ op = "action_session_start"
    /\ \E i \in 1..Len(tracker) : tracker[i] = SessionStarted
    /\ \E i \in 1..Len(tracker) : tracker[i] = ActionExecuted("action_listen")
    /\ \E i \in 1..Len(ret) : IsCarried(ret[i])
    /\ Cardinality({i \in 1..Len(ret) : IsProfile(ret[i])}) = 3

\* C3: validate_priority accepts low, Low, LOW, medium and high and rejects
\* every other value with the invalid-priority message; submit maps an
\* accepted low/Low/LOW to "3", medium to "2" and high to "1".
C3_PrioritySeverity ==
    /\ op = "validate_priority" =>
          IF Lower(in_value) \in {"low", "medium", "high"}
          THEN validated = {<<"priority", in_value>>} /\ msgs = <<>>
          ELSE /\ validated = {<<"priority", NULL>>}
               /\ slots.priority = NULL
               /\ msgs = <<Message("utter_no_priority", <<>>)>>
    /\ op = "submit" =>
          /\ snap.priority \in {"low", "Low", "LOW"} => snow_priority = "3"
          /\ snap.priority = "medium" => snow_priority = "2"
          /\ snap.priority = "high" => snow_priority = "1"

\* C4: in live mode, on a 200 answer, validate_email keeps the user's input
\* iff exactly one record came back; otherwise the email slot becomes null
\* and the one message utter_no_email is sent.
C4_EmailKeptIffOneRecord ==
    (~localmode /\ op = "validate_email" /\ outcome.kind = "ok") =>
        /\ raised = "none"
        /\ IF Len(outcome.records) = 1
           THEN /\ validated = {<<"email", in_value>>}
                /\ slots.email = in_value
                /\ msgs = <<>>
           ELSE /\ validated = {<<"email", NULL>>}
                /\ slots.email = NULL
                /\ msgs = <<Message("utter_no_email", <<>>)>>

C4_Witness ==
    /\ ~localmode
    /\ op = "validate_email"
    /\ outcome.kind = "ok"
    /\ Len(outcome.records) = 1
    /\ slots.email = in_value
    /\ in_value # outcome.records[1].sys_id

\* C5: in live mode a failed lookup (non-200 answer or timeout) does not
\* make validate_email raise: the email slot becomes null and one message
\* with the failure text is sent.
C5_LookupFailureHandled ==
    (~localmode /\ op = "validate_email"
        /\ outcome.kind \in {"http", "timeout"}) =>
        /\ raised = "none"
        /\ validated = {<<"email", NULL>>}
        /\ Len(msgs) = 1
        /\ msgs[1].text =
              IF outcome.kind = "http"
              THEN <<"ServiceNow error: ", outcome.message>>
              ELSE <<"Could not connect to ServiceNow (Timeout)">>

\* C6: a submit that completes returns the bulk reset alone after one
\* message; a submit that raises returns no event and sends no message, and
\* the four slots keep the values they had.
C6_SubmitAllOrNothing ==
    op = "submit" =>
        IF raised = "none"
        THEN ret = <<AllSlotsReset>> /\ Len(msgs) = 1
        ELSE /\ ~localmode
             /\ ret = <<>>
             /\ msgs = <<>>
             /\ slots = snap
             /\ \A i \in 1..Len(required_slots) :
                    slots[required_slots[i]] # NULL

C6_Witness ==
    /\ op = "submit"
    /\ raised # "none"
    /\ Len(net) = 2
    /\ slots.email \in Emails

\* C7: while the form is active it asks for the first of email, priority,
\* problem_description, incident_title that is null; a slot a validation
\* has just set to null is the slot asked next, and submit runs only with
\* all four slots filled.
FirstNull(sl) ==
    IF sl.email = NULL THEN "email"
    ELSE IF sl.priority = NULL THEN "priority"
    ELSE IF sl.problem_description = NULL THEN "problem_description"
    ELSE IF sl.incident_title = NULL THEN "incident_title"
    ELSE NULL

C7_AsksFirstNullSlot ==
    /\ active => requested_slot = FirstNull(slots)
    /\ (op \in {"validate_email", "validate_priority"} /\ raised = "none") =>
          \A kv \in validated : kv[2] = NULL => requested_slot = kv[1]
    /\ op = "submit" =>
          /\ snap.email # NULL
          /\ snap.priority # NULL
          /\ snap.problem_description # NULL
          /\ snap.incident_title # NULL

C7_Witness ==
    /\ active
    /\ op = "validate_priority"
    /\ validated = {<<"priority", NULL>>}
    /\ requested_slot = "priority"
    /\ slots.email # NULL
    /\ slots.problem_description = NULL

\* C8: the session-start handler carries slot events over iff the session
\* configuration enables carry-over, and then carries each slot event of
\* the applied events over once, in order, with key, value and metadata.
CarryOverEnabled(dom) ==
    /\ "session_config" \in DOMAIN dom
    /\ \/ /\ "carry_over_slots" \in DOMAIN dom.session_config
          /\ dom.session_config.carry_over_slots = TRUE
       \/ /\ "carry_over_slots_to_new_session" \in DOMAIN dom.session_config
          /\ dom.session_config.carry_over_slots_to_new_session = TRUE

C8_CarryOverIffEnabled ==
    op = "action_session_start" =>
        SelectSeq(ret, IsCarried) =
            IF CarryOverEnabled(domain)
            THEN SelectSeq(tracker, IsSlotSet) ELSE <<>>

\* C9: a live submit sends the lookup first and at most one creation
\* request, and that only after a 200 lookup answer with a record; the
\* request names the first record's sys_id as opened_by and caller_id, the
\* mapped severity as urgency and the description as description and comments.
C9_CreateAfterLookup ==
    (~localmode /\ op = "submit") =>
        LET posts == {i \in 1..Len(net) : net[i].method = "POST"}
            found == /\ outcome.lookup.kind = "ok"
                     /\ Len(outcome.lookup.records) >= 1
        IN  /\ Len(net) >= 1
            /\ net[1] = LookupRequest(snap.email)
            /\ posts = IF found THEN {2} ELSE {}
            /\ Len(net) <= 2
            /\ \A i \in posts :
                  /\ net[i].data.opened_by = outcome.lookup.records[1].sys_id
                  /\ net[i].data.caller_id = outcome.lookup.records[1].sys_id
                  /\ net[i].data.urgency = snow_priority
                  /\ net[i].data.description = snap.problem_description
                  /\ net[i].data.comments = snap.problem_description

C9_Witness ==
    /\ ~localmode
    /\ op = "submit"
    /\ Len(net) = 2
    /\ Len(outcome.lookup.records) = 2
    /\ outcome.lookup.records[1] # outcome.lookup.records[2]
    /\ net[2].data.caller_id = outcome.lookup.records[1].sys_id
    /\ snap.problem_description # snap.incident_title

\* C10: get_last_event_for(tracker, "user", skip) returns the (skip+1)-th
\* from the end of the user events whose intent is neither domicile nor
\* customertype, and None when there are fewer; the confidence report
\* (skip 1, 4 entries) sends its one message iff that event exists and
\* ranks at least 4 intents, and raises with no message otherwise.
Qualifies(e) ==
    /\ e.event = "user"
    /\ e.parse_data.intent.name \notin {"domicile", "customertype"}

QualifyingAt == {i \in 1..Len(tracker) : Qualifies(tracker[i])}

\* positions of the qualifying events with exactly k qualifying events after
NthFromEnd(k) ==
    {i \in QualifyingAt : Cardinality({j \in QualifyingAt : j > i}) = k}

C10_LastEventFor ==
    /\ op = "get_last_event_for" =>
          IF Cardinality(QualifyingAt) >= skip + 1
          THEN \E i \in NthFromEnd(skip) : ret = <<tracker[i]>>
          ELSE ret = <<NoneEvent>>
    /\ op = "action_f1_score" =>
          IF \E i \in NthFromEnd(1) :
                Len(tracker[i].parse_data.intent_ranking) >= 4
          THEN raised = "none" /\ Len(msgs) = 1 /\ ret = <<>>
          ELSE raised # "none" /\ msgs = <<>> /\ ret = <<>>

C10_Witness ==
    /\ op = "get_last_event_for"
    /\ skip = 1
    /\ Len(tracker) = 3
    /\ ret # <<NoneEvent>>
    /\ ret[1].timestamp = 1
    /\ tracker[2].event = "user"

====
